---- MODULE Spec2Model ----
(***************************************************************************)
(* Model of ngs_glutton's run-folder reading (src/ngs_glutton/io.py):      *)
(* folder layout detection, run-folder parsing and the sampling of indexed *)
(* reads from per-cycle base-call files.                                   *)
(*                                                                         *)
(* Modelling conventions                                                   *)
(*  - A Python exception is the state pc = "failed" with err holding the   *)
(*    name of the exception class that the code (or the library call it    *)
(*    makes) raises.  Nothing in io.py catches an exception.               *)
(*  - A dict is a sequence of records in insertion order (Python dicts     *)
(*    keep insertion order).                                               *)
(*  - lower_thresh is a float in the code; it is modelled as a rational    *)
(*    <<p, q>> (p >= 0, q > 0), and int(lower_thresh * num) as the integer *)
(*    quotient (p * num) \div q.                                           *)
(*  - The contents of a cycle file are chosen when the file is opened:     *)
(*    every cycle file is opened at most once per call.                    *)
(***************************************************************************)
EXTENDS Integers, Sequences, FiniteSets, TLC

VARIABLES
    \* ---- arguments of sample_indexed_reads
    run_folder,     \* [layout, read_descriptions, lanes, clusters]
    num_reads,      \* number of reads to sample per lane
    lower_thresh,   \* <<p, q>>, the fraction p/q
    \* ---- _IndexedReadSamplingDriver.run / _BaseIndexedReadSampler.run
    pc,             \* position in the call
    err,            \* exception raised ("" when none)
    result,         \* list of SampleIndexedReadsStats built by run()
    cycle,          \* run(): running cycle counter
    idx,            \* run(): position in read_descriptions (1-based)
    \* ---- _do_sample
    lanes_left,     \* sorted lanes still to visit for the current read
    per_lane,       \* _do_sample's result dict: <<[lane, hist]>>
    lane,           \* the lane being sampled
    \* ---- _sample_for_lane
    c,              \* loop variable over cycles
    cycle_bases,    \* list of decoded per-cycle arrays
    num,            \* local num of the last decoded cycle
    histogram,      \* unfiltered histogram: <<[seq, count]>> in first-seen order
    bclf,           \* the file behind the open GzipFile
    handles,        \* number of open file handles
    \* ---- observation of the file system accesses
    opened,         \* every cycle file opened so far: <<[read, lane, cycle]>>
    files_read,     \* per cycle of the current lane: what the file held and gave
    \* ---- parse_run_folder(path, layout)
    fs,             \* the paths that exist below the run folder
    layout_arg,     \* the layout argument (NoLayout for None)
    fpc,            \* position in parse_run_folder
    ferr,           \* exception raised by parse_run_folder ("" when none)
    layout,         \* the local variable layout
    guess,          \* outcome of the call of guess_folder_layout, if any
    \* ---- the command line application, app.py
    argv,           \* the command line: the command and the options given
    config,         \* the [flowcelltool] section of the configuration file
    args,           \* the argparse namespace: attribute name -> value
    folder,         \* the parsed RunFolder and whether RTAComplete.txt exists
    flowcell,       \* the flowcell as the Flowcelltool server holds it
    fc,             \* the flowcell JSON returned by _flowcell_by_vendor_id
    apc,            \* position in the command
    aerr,           \* exception raised by the command ("" when none)
    current_status, \* argument of the last call of get_sequencing_status
    sequencing_status,  \* what that call returned
    stdout,         \* the lines printed
    http            \* the requests of the command: <<[method, resource, answer]>>

samplerVars == <<run_folder, num_reads, lower_thresh, pc, err, result, cycle, idx,
                 lanes_left, per_lane, lane, c, cycle_bases, num, histogram,
                 bclf, handles, opened, files_read>>

folderVars == <<fs, layout_arg, fpc, ferr, layout, guess>>

appVars == <<argv, config, args, folder, flowcell, fc, apc, aerr, current_status,
             sequencing_status, stdout, http>>

vars == <<samplerVars, folderVars, appVars>>

\* what the steps of sample_indexed_reads leave alone
notSampler == <<folderVars, appVars>>

\* what the steps of parse_run_folder leave alone
notFolder == <<samplerVars, appVars>>

\* what the steps of the command line application leave alone
notApp == <<samplerVars, folderVars>>

(***************************************************************************)
(* Bounds of the explored inputs                                           *)
(***************************************************************************)
MaxReads == 2       \* read descriptions per run
MaxCycles == 2      \* num_cycles of one read
MaxLanes == 2       \* lane directories L001..
MaxNumReads == 3    \* num_reads argument
MaxBytes == 3       \* base-call bytes held by a cycle file, and declared total_reads
MaxClusters == 2    \* reads per cycle file of a whole run folder

(***************************************************************************)
(* io.py constants                                                         *)
(***************************************************************************)
FOLDER_LAYOUT_MISEQ_HISEQ2K == "MiSeq_or_HiSeq_2000_2500"
FOLDER_LAYOUT_MINISEQ_NEXTSEQ == "MiniSeq_or_NextSeq"
FOLDER_LAYOUT_HISEQX == "HiSeqX"
FOLDER_LAYOUTS == {FOLDER_LAYOUT_MISEQ_HISEQ2K, FOLDER_LAYOUT_MINISEQ_NEXTSEQ,
                   FOLDER_LAYOUT_HISEQX}

\* index of the representative tile in the sorted listing of lane/C1.1
TILE_INDEX == 10

\* the string indexed by the decoder, 'ACGTN'
BASE_CHARS == <<"A", "C", "G", "T", "N">>

\* the value the mask is filled with
FILL_VALUE == 4

(***************************************************************************)
(* Helpers                                                                 *)
(***************************************************************************)
Min(a, b) == IF a <= b THEN a ELSE b

Take(s, n) == SubSeq(s, 1, Min(n, Len(s)))

Range(s) == {s[i] : i \in DOMAIN s}

RECURSIVE SumSeq(_)
SumSeq(s) == IF s = <<>> THEN 0 ELSE Head(s) + SumSeq(Tail(s))

\* a listing of the lanes in descending order
RECURSIVE SortedLanesDescending(_)
SortedLanesDescending(S) ==
    IF S = {} THEN <<>>
    ELSE LET m == CHOOSE x \in S : \A y \in S : x >= y
         IN  <<m>> \o SortedLanesDescending(S \ {m})

\* sorted(...) of a set of lane numbers, as a sequence
RECURSIVE SortedLanes(_)
SortedLanes(S) ==
    IF S = {} THEN <<>>
    ELSE LET m == CHOOSE x \in S : \A y \in S : x <= y
         IN  <<m>> \o SortedLanes(S \ {m})

NoFile == [kind |-> "none", total_reads |-> 0, bytes |-> <<>>]

(***************************************************************************)
(* The per-cycle decode, io.py lines 215-229                               *)
(***************************************************************************)
\* struct.unpack('I', bytes_num)[0] followed by min(self.num_reads, ...)
NumToRead(n_reads, total_reads) == Min(n_reads, total_reads)

\* bclf.read(num): at most num bytes, fewer when the stream ends earlier
ReadBytes(bytes, n) == Take(bytes, n)

\* a mask taken on the base bits instead of the whole byte
MaskedLowBits(b) == b % 4 = 0

\* ma.masked_where(arr_base_qual == 0, arr_base_qual): the mask of one element
Masked(b) == b = 0

\* np.bitwise_and(masked_base_qual, 3): the data of one element
BitwiseAnd3(b) == b % 4

\* ma.filled(masked_base, 4): masked elements become 4
Filled(b) == IF Masked(b) THEN FILL_VALUE ELSE BitwiseAnd3(b)

\* lambda x: 'ACGTN'[x]
DecodeByte(b) == BASE_CHARS[Filled(b) + 1]

\* np.vectorize(f)(arr) raises ValueError on an array of size 0
VectorizeFails(bytes_bases) == Len(bytes_bases) = 0

DecodeArray(bytes_bases) == [i \in 1..Len(bytes_bases) |-> DecodeByte(bytes_bases[i])]

(***************************************************************************)
(* The histogram, io.py lines 230-240                                      *)
(***************************************************************************)
\* np.vstack raises ValueError for an empty list and for arrays of unequal length
VStackFails(cb) == \/ cb = <<>>
                   \/ \E j \in DOMAIN cb : Len(cb[j]) # Len(cb[1])

\* ''.join(row)
RECURSIVE Join(_)
Join(row) == IF row = <<>> THEN "" ELSE Head(row) \o Join(Tail(row))

\* rows that are not transposed: row j holds the symbols of cycle j
RowsByCycle(cb) == cb

\* np.vstack(cycle_bases).T: row i holds, per cycle, the symbol of read index i
TransposedRows(cb) ==
    [i \in 1..Len(cb[1]) |-> [j \in 1..Len(cb) |-> cb[j][i]]]

\* a tally that stores a new sequence with count 0 and counts only its repeats
HistAddRepeatsOnly(h, seq) ==
    IF \E i \in DOMAIN h : h[i].seq = seq
    THEN [i \in DOMAIN h |->
            IF h[i].seq = seq THEN [h[i] EXCEPT !.count = @ + 1] ELSE h[i]]
    ELSE Append(h, [seq |-> seq, count |-> 0])

\* histogram.setdefault(seq, 0); histogram[seq] += 1
HistAdd(h, seq) ==
    IF \E i \in DOMAIN h : h[i].seq = seq
    THEN [i \in DOMAIN h |->
            IF h[i].seq = seq THEN [h[i] EXCEPT !.count = @ + 1] ELSE h[i]]
    ELSE Append(h, [seq |-> seq, count |-> 0 + 1])

RECURSIVE TallyRows(_, _)
TallyRows(h, rows) ==
    IF rows = <<>> THEN h
    ELSE TallyRows(HistAdd(h, Join(Head(rows))), Tail(rows))

BuildHistogram(cb) == TallyRows(<<>>, TransposedRows(cb))

\* thresh = int(self.lower_thresh * num)
Thresh(lt, n) == (lt[1] * n) \div lt[2]

\* a sort that puts an item in front of the items of equal count
InsertByCountUnstable(s, it) ==
    LET k == Cardinality({i \in DOMAIN s : s[i].count > it.count})
    IN  SubSeq(s, 1, k) \o <<it>> \o SubSeq(s, k + 1, Len(s))

\* one step of sorted(..., key=count, reverse=True): Python's sort is stable also
\* with reverse=True, so an item goes behind every item whose count is >= its own
InsertByCount(s, it) ==
    LET k == Cardinality({i \in DOMAIN s : s[i].count >= it.count})
    IN  SubSeq(s, 1, k) \o <<it>> \o SubSeq(s, k + 1, Len(s))

RECURSIVE SortItems(_, _)
SortItems(acc, items) ==
    IF items = <<>> THEN acc
    ELSE SortItems(InsertByCount(acc, Head(items)), Tail(items))

SortedByCount(h) == SortItems(<<>>, h)

\* a filter that also keeps a count equal to the threshold
RetainedAtThreshold(count, thresh) == count >= thresh

\* a filter with the comparison inverted
RetainedBelow(count, thresh) == count < thresh

\* the condition of the dict comprehension
Retained(count, thresh) == count > thresh

\* {seq: count for seq, count in sorted(...) if count > thresh}
FilterHistogram(h, thresh) ==
    LET Keep(e) == Retained(e.count, thresh)
    IN  SelectSeq(SortedByCount(h), Keep)

(***************************************************************************)
(* The inputs: run folders and cycle files                                 *)
(***************************************************************************)
\* model.ReadDescription; num_cycles > 0
ReadDescriptions == [num_cycles : 1..MaxCycles, is_indexed_read : BOOLEAN]

ReadDescriptionLists ==
    UNION {[1..n -> ReadDescriptions] : n \in 0..MaxReads}

\* the values of lower_thresh that are explored, as fractions p/q
ThreshValues == {<<0, 1>>, <<1, 100>>, <<1, 3>>, <<1, 2>>, <<1, 1>>}

\* byte values that occur in the cycle files of SpecLane:
\* 0 (no call, N) and 4 (A with a quality value)
ByteValues == {0, 4}

BytesUpTo(n, B) == UNION {[1..k -> B] : k \in 0..n}

DataFile(t, bytes) == [kind |-> "data", total_reads |-> t, bytes |-> bytes]

\* a path that does not exist, a file that is not gzip data, a stream that
\* ends inside the 4-byte header
BrokenFiles == {[kind |-> k, total_reads |-> 0, bytes |-> <<>>] :
                    k \in {"missing", "notgzip", "shortheader"}}

\* cycle files whose header declares t reads and that hold any number of bytes
LaneFiles ==
    BrokenFiles \cup
    {DataFile(t, bytes) : t \in 0..MaxBytes, bytes \in BytesUpTo(MaxBytes, ByteValues)}

\* a missing cycle file, a cycle file that ends inside its header, and
\* well-formed cycle files of t reads that hold the same byte throughout
DriverFiles(t) ==
    {[kind |-> k, total_reads |-> 0, bytes |-> <<>>] : k \in {"missing", "shortheader"}}
    \cup {DataFile(t, [i \in 1..t |-> 1])}

\* cycle files of one read that hold a single byte of any value
ByteFiles == {DataFile(1, <<b>>) : b \in 0..255}

\* number of *.bcl.gz files found in lane/C1.1 (MiSeq layout)
TileCounts == {TILE_INDEX, TILE_INDEX + 1}

(***************************************************************************)
(* sample_indexed_reads, io.py lines 173-331                               *)
(***************************************************************************)
\* a handler that records the exception and returns what was collected
RaiseCaught(e) == /\ pc' = "done"
                  /\ err' = e

Raise(e) == /\ pc' = "failed"
            /\ err' = e

read_desc == run_folder.read_descriptions[idx]

\* a counter that only the indexed reads advance
NextCycleIndexedOnly(cyc, rd) ==
    IF rd.is_indexed_read THEN cyc + rd.num_cycles ELSE cyc

\* cycle += read_desc.num_cycles
NextCycle(cyc, rd) == cyc + rd.num_cycles

\* a dispatch that falls back to the MiniSeq sampler for every other layout
DriverRunFallback ==
    /\ pc = "start"
    /\ pc' = "run"
    /\ result' = <<>>
    /\ cycle' = 1
    /\ idx' = 1
    /\ UNCHANGED notSampler
    /\ UNCHANGED <<run_folder, num_reads, lower_thresh, err, lanes_left, per_lane,
                   lane, c, cycle_bases, num, histogram, bclf, handles, opened,
                   files_read>>

\* _IndexedReadSamplingDriver.run: dispatch on the layout
DriverRun ==
    /\ pc = "start"
    /\ IF run_folder.layout \in {FOLDER_LAYOUT_MINISEQ_NEXTSEQ,
                                 FOLDER_LAYOUT_MISEQ_HISEQ2K}
       THEN /\ pc' = "run"
            /\ result' = <<>>
            /\ cycle' = 1
            /\ idx' = 1
            /\ err' = err
       ELSE /\ Raise("NgsGluttonException")
            /\ UNCHANGED <<result, cycle, idx>>
    /\ UNCHANGED notSampler
    /\ UNCHANGED <<run_folder, num_reads, lower_thresh, lanes_left, per_lane, lane,
                   c, cycle_bases, num, histogram, bclf, handles, opened, files_read>>

\* a loop that samples every read description, indexed or not
BaseRunEveryRead ==
    /\ pc = "run"
    /\ IF idx > Len(run_folder.read_descriptions)
       THEN /\ pc' = "done"
            /\ UNCHANGED <<lanes_left, per_lane>>
       ELSE /\ pc' = "lane"
            /\ per_lane' = <<>>
            /\ lanes_left' = SortedLanes(run_folder.lanes)
    /\ UNCHANGED notSampler
    /\ UNCHANGED <<run_folder, num_reads, lower_thresh, err, result, cycle, idx, lane,
                   c, cycle_bases, num, histogram, bclf, handles, opened, files_read>>

\* _BaseIndexedReadSampler.run: one iteration of the loop over read_descriptions,
\* up to the call of _do_sample; the return when the list is exhausted
BaseRun ==
    /\ pc = "run"
    /\ IF idx > Len(run_folder.read_descriptions)
       THEN /\ pc' = "done"
            /\ UNCHANGED <<cycle, idx, lanes_left, per_lane>>
       ELSE IF read_desc.is_indexed_read
       THEN /\ pc' = "lane"
            /\ per_lane' = <<>>
            /\ lanes_left' = SortedLanes(run_folder.lanes)
            /\ UNCHANGED <<cycle, idx>>
       ELSE /\ cycle' = NextCycle(cycle, read_desc)
            /\ idx' = idx + 1
            /\ UNCHANGED <<pc, lanes_left, per_lane>>
    /\ UNCHANGED notSampler
    /\ UNCHANGED <<run_folder, num_reads, lower_thresh, err, result, lane,
                   c, cycle_bases, num, histogram, bclf, handles, opened, files_read>>

\* SampleIndexedReadsStats(self.num_reads, self.lower_thresh, result)
Stats(pl) == [num_indexed_reads |-> num_reads,
              min_read_threshold |-> lower_thresh,
              per_lane |-> pl]

\* _do_sample: one iteration of the loop over the sorted lanes up to the call of
\* _sample_for_lane (with the tile lookup of the MiSeq layout), whose locals
\* start out fresh; after the last lane the return to run(), which appends the
\* stats and advances the cycle
DoSample ==
    /\ pc = "lane"
    /\ IF lanes_left = <<>>
       THEN /\ result' = Append(result, Stats(per_lane))
            /\ cycle' = NextCycle(cycle, read_desc)
            /\ idx' = idx + 1
            /\ pc' = "run"
            /\ UNCHANGED <<err, lane, c, cycle_bases, num, histogram, files_read>>
       ELSE /\ lane' = Head(lanes_left)
            /\ \E ntiles \in TileCounts :
                 IF /\ run_folder.layout = FOLDER_LAYOUT_MISEQ_HISEQ2K
                    /\ ntiles <= TILE_INDEX
                 THEN /\ Raise("IndexError")
                      /\ UNCHANGED <<c, cycle_bases, num, histogram, files_read>>
                 ELSE /\ pc' = "cycle"
                      /\ c' = cycle
                      /\ cycle_bases' = <<>>
                      /\ num' = 0
                      /\ histogram' = <<>>
                      /\ files_read' = <<>>
                      /\ err' = err
            /\ UNCHANGED <<result, cycle, idx>>
    /\ UNCHANGED notSampler
    /\ UNCHANGED <<run_folder, num_reads, lower_thresh, lanes_left, per_lane,
                   bclf, handles, opened>>

\* _sample_for_lane: the head of the loop over the cycles and gzip.GzipFile(path)
OpenCycle(Files) ==
    /\ pc = "cycle"
    /\ IF c >= cycle + read_desc.num_cycles
       THEN /\ pc' = "tally"
            /\ UNCHANGED <<err, bclf, handles, opened>>
       ELSE \E f \in Files :
              /\ opened' = Append(opened, [read |-> idx, lane |-> lane, cycle |-> c])
              /\ IF f.kind = "missing"
                 THEN /\ Raise("FileNotFoundError")
                      /\ UNCHANGED <<bclf, handles>>
                 ELSE /\ bclf' = f
                      /\ handles' = handles + 1
                      /\ pc' = "read"
                      /\ err' = err
    /\ UNCHANGED notSampler
    /\ UNCHANGED <<run_folder, num_reads, lower_thresh, result, cycle, idx,
                   lanes_left, per_lane, lane, c, cycle_bases, num, histogram,
                   files_read>>

\* a body without the with block: close() is reached only when nothing raises
ReadCycleNoWith ==
    /\ pc = "read"
    /\ IF bclf.kind = "notgzip"
       THEN /\ Raise("OSError")
            /\ UNCHANGED <<c, cycle_bases, num, files_read, handles, bclf>>
       ELSE IF bclf.kind = "shortheader"
       THEN /\ Raise("struct.error")
            /\ UNCHANGED <<c, cycle_bases, num, files_read, handles, bclf>>
       ELSE LET n == NumToRead(num_reads, bclf.total_reads)
                bytes_bases == ReadBytes(bclf.bytes, n)
            IN  /\ num' = n
                /\ files_read' = Append(files_read,
                                        [total_reads |-> bclf.total_reads,
                                         valid |-> Len(bclf.bytes) >= bclf.total_reads,
                                         bytes_bases |-> bytes_bases])
                /\ IF VectorizeFails(bytes_bases)
                   THEN /\ Raise("ValueError")
                        /\ UNCHANGED <<c, cycle_bases, handles, bclf>>
                   ELSE /\ cycle_bases' = Append(cycle_bases, DecodeArray(bytes_bases))
                        /\ c' = c + 1
                        /\ pc' = "cycle"
                        /\ err' = err
                        /\ handles' = handles - 1
                        /\ bclf' = NoFile
    /\ UNCHANGED notSampler
    /\ UNCHANGED <<run_folder, num_reads, lower_thresh, result, cycle, idx,
                   lanes_left, per_lane, lane, histogram, opened>>

\* the body of the with block: header, base calls, decode; the file is closed
\* when the block is left, also by an exception
ReadCycle ==
    /\ pc = "read"
    /\ handles' = handles - 1
    /\ bclf' = NoFile
    /\ IF bclf.kind = "notgzip"
       THEN /\ Raise("OSError")
            /\ UNCHANGED <<c, cycle_bases, num, files_read>>
       ELSE IF bclf.kind = "shortheader"
       THEN /\ Raise("struct.error")
            /\ UNCHANGED <<c, cycle_bases, num, files_read>>
       ELSE LET n == NumToRead(num_reads, bclf.total_reads)
                bytes_bases == ReadBytes(bclf.bytes, n)
            IN  /\ num' = n
                /\ files_read' = Append(files_read,
                                        [total_reads |-> bclf.total_reads,
                                         valid |-> Len(bclf.bytes) >= bclf.total_reads,
                                         bytes_bases |-> bytes_bases])
                /\ IF VectorizeFails(bytes_bases)
                   THEN /\ Raise("ValueError")
                        /\ UNCHANGED <<c, cycle_bases>>
                   ELSE /\ cycle_bases' = Append(cycle_bases, DecodeArray(bytes_bases))
                        /\ c' = c + 1
                        /\ pc' = "cycle"
                        /\ err' = err
    /\ UNCHANGED notSampler
    /\ UNCHANGED <<run_folder, num_reads, lower_thresh, result, cycle, idx,
                   lanes_left, per_lane, lane, histogram, opened>>

\* a tally that pairs the arrays up to the shortest one, as zip() would
TallyShortest ==
    /\ pc = "tally"
    /\ IF cycle_bases = <<>>
       THEN /\ Raise("ValueError")
            /\ UNCHANGED histogram
       ELSE LET shortest == CHOOSE n \in {Len(cycle_bases[j]) : j \in DOMAIN cycle_bases} :
                                \A j \in DOMAIN cycle_bases : n <= Len(cycle_bases[j])
            IN  /\ histogram' = BuildHistogram([j \in DOMAIN cycle_bases |->
                                                 Take(cycle_bases[j], shortest)])
                /\ pc' = "filter"
                /\ err' = err
    /\ UNCHANGED notSampler
    /\ UNCHANGED <<run_folder, num_reads, lower_thresh, result, cycle, idx,
                   lanes_left, per_lane, lane, c, cycle_bases, num, bclf, handles,
                   opened, files_read>>

\* the tally of the joined rows
Tally ==
    /\ pc = "tally"
    /\ IF VStackFails(cycle_bases)
       THEN /\ Raise("ValueError")
            /\ UNCHANGED histogram
       ELSE /\ histogram' = BuildHistogram(cycle_bases)
            /\ pc' = "filter"
            /\ err' = err
    /\ UNCHANGED notSampler
    /\ UNCHANGED <<run_folder, num_reads, lower_thresh, result, cycle, idx,
                   lanes_left, per_lane, lane, c, cycle_bases, num, bclf, handles,
                   opened, files_read>>

\* the filtered, sorted dict is returned and stored as result[lane.name]
Filter ==
    /\ pc = "filter"
    /\ per_lane' = Append(per_lane,
                          [lane |-> lane,
                           hist |-> FilterHistogram(histogram,
                                                    Thresh(lower_thresh, num))])
    /\ lanes_left' = Tail(lanes_left)
    /\ pc' = "lane"
    /\ UNCHANGED notSampler
    /\ UNCHANGED <<run_folder, num_reads, lower_thresh, err, result, cycle, idx,
                   lane, c, cycle_bases, num, histogram, bclf, handles, opened,
                   files_read>>

(***************************************************************************)
(* guess_folder_layout and parse_run_folder, io.py lines 35-49, 150-170    *)
(***************************************************************************)
MISEQ_MARKER == "Data/Intensities/BaseCalls/L001/C1.1"
HISEQX_MARKER == "Data/Intensities/s.locs"
MINISEQ_MARKER == "Data/Intensities/BaseCalls/L001"

RUN_INFO_XML == "RunInfo.xml"
MISEQ_PARAMETERS_XML == "runParameters.xml"
NEXTSEQ_PARAMETERS_XML == "RunParameters.xml"

Paths == {MISEQ_MARKER, HISEQX_MARKER, MINISEQ_MARKER, RUN_INFO_XML,
          MISEQ_PARAMETERS_XML, NEXTSEQ_PARAMETERS_XML}

\* a directory entry exists only inside an existing directory
FileSystems == {S \in SUBSET Paths : MISEQ_MARKER \in S => MINISEQ_MARKER \in S}

\* layout=None
NoLayout == "None"

\* the outcome of guess_folder_layout: the layout returned, or the exception raised
Returns(v) == [raised |-> "", value |-> v]
Raises(e) == [raised |-> e, value |-> NoLayout]

NotCalled == [raised |-> "not called", value |-> NoLayout]

\* a detector that tests the HiSeqX marker first
guess_folder_layout_hiseqx_first(exists) ==
    IF HISEQX_MARKER \in exists THEN Returns(FOLDER_LAYOUT_HISEQX)
    ELSE IF MISEQ_MARKER \in exists THEN Returns(FOLDER_LAYOUT_MISEQ_HISEQ2K)
    ELSE IF MINISEQ_MARKER \in exists THEN Returns(FOLDER_LAYOUT_MINISEQ_NEXTSEQ)
    ELSE Raises("UnknownFlowcellLayoutException")

guess_folder_layout(exists) ==
    IF MISEQ_MARKER \in exists THEN Returns(FOLDER_LAYOUT_MISEQ_HISEQ2K)
    ELSE IF HISEQX_MARKER \in exists THEN Returns(FOLDER_LAYOUT_HISEQX)
    ELSE IF MINISEQ_MARKER \in exists THEN Returns(FOLDER_LAYOUT_MINISEQ_NEXTSEQ)
    ELSE Raises("UnknownFlowcellLayoutException")

FRaise(e) == /\ fpc' = "failed"
             /\ ferr' = e

\* open(path / 'RunInfo.xml'), read and parse it
ReadRunInfo ==
    /\ fpc = "start"
    /\ IF RUN_INFO_XML \in fs
       THEN /\ fpc' = "layout"
            /\ ferr' = ferr
       ELSE FRaise("FileNotFoundError")
    /\ UNCHANGED <<fs, layout_arg, layout, guess>>
    /\ UNCHANGED notFolder

\* layout = layout or guess_folder_layout(path)
ResolveLayout ==
    /\ fpc = "layout"
    /\ IF layout_arg # NoLayout
       THEN /\ layout' = layout_arg
            /\ fpc' = "parameters"
            /\ UNCHANGED <<ferr, guess>>
       ELSE LET g == guess_folder_layout(fs)
            IN  /\ guess' = g
                /\ IF g.raised # ""
                   THEN /\ FRaise(g.raised)
                        /\ layout' = layout
                   ELSE /\ layout' = g.value
                        /\ fpc' = "parameters"
                        /\ ferr' = ferr
    /\ UNCHANGED <<fs, layout_arg>>
    /\ UNCHANGED notFolder

\* the run parameters file of the layout is read and parsed, and the RunFolder
\* is returned
ReadRunParameters ==
    /\ fpc = "parameters"
    /\ IF layout = FOLDER_LAYOUT_MISEQ_HISEQ2K
       THEN IF MISEQ_PARAMETERS_XML \in fs
            THEN /\ fpc' = "done"
                 /\ ferr' = ferr
            ELSE FRaise("FileNotFoundError")
       ELSE IF layout = FOLDER_LAYOUT_MINISEQ_NEXTSEQ
       THEN IF NEXTSEQ_PARAMETERS_XML \in fs
            THEN /\ fpc' = "done"
                 /\ ferr' = ferr
            ELSE FRaise("FileNotFoundError")
       ELSE FRaise("UnknownFlowcellLayoutException")
    /\ UNCHANGED <<fs, layout_arg, layout, guess>>
    /\ UNCHANGED notFolder

(***************************************************************************)
(* The sequencing status, io.py lines 351-397                              *)
(***************************************************************************)
\* model.STATUSES
STATUSES == <<"initial", "in_progress", "complete", "failed", "closed", "canceled",
              "skipped">>

\* folder.run_info and folder.run_parameters, which may be None
NoRunInfo == [present |-> FALSE, read_descriptions |-> <<>>]
RunInfo(rds) == [present |-> TRUE, read_descriptions |-> rds]

NoRunParameters == [present |-> FALSE, planned_read_descriptions |-> <<>>]
RunParameters(rds) == [present |-> TRUE, planned_read_descriptions |-> rds]

\* [r.num_cycles for r in info_reads if r.is_indexed_read == ix]
RECURSIVE Lens(_, _)
Lens(info_reads, ix) ==
    IF info_reads = <<>> THEN <<>>
    ELSE (IF Head(info_reads).is_indexed_read = ix
          THEN <<Head(info_reads).num_cycles>> ELSE <<>>)
         \o Lens(Tail(info_reads), ix)

\* sep.join(map(str, lens))
RECURSIVE JoinStr(_, _)
JoinStr(sep, lens) ==
    IF lens = <<>> THEN ""
    ELSE IF Len(lens) = 1 THEN ToString(lens[1])
    ELSE ToString(Head(lens)) \o sep \o JoinStr(sep, Tail(lens))

\* _flow_cell_mode: '2x150/2x8' and the like
flow_cell_mode(info_reads) ==
    LET read_lens == Lens(info_reads, FALSE)
        index_lens == Lens(info_reads, TRUE)
        reads == IF Len(read_lens) = 1
                 THEN "1x" \o ToString(read_lens[1])
                 ELSE IF Cardinality(Range(read_lens)) = 1
                 THEN "2x" \o ToString(read_lens[1])
                 ELSE JoinStr(" + ", read_lens)
        indexes == IF index_lens = <<>> THEN ""
                   ELSE "/" \o (IF Cardinality(Range(index_lens)) = 1
                                THEN ToString(Len(index_lens)) \o "x"
                                       \o ToString(index_lens[1])
                                ELSE JoinStr("+", index_lens))
        res == IF info_reads # <<>> THEN reads \o indexes ELSE ""
    IN  IF res # "" THEN res ELSE "?x?"

\* _flowcell_mode_ok
flowcell_mode_ok(f) ==
    IF ~f.run_info.present \/ ~f.run_parameters.present
    THEN FALSE
    ELSE flow_cell_mode(f.run_info.read_descriptions)
           = flow_cell_mode(f.run_parameters.planned_read_descriptions)

\* a status function for which only 'closed' is final
get_sequencing_status_closed_only(f, current) ==
    IF current = "closed" THEN current
    ELSE IF ~flowcell_mode_ok(f) THEN "failed"
    ELSE IF f.rta_complete THEN "complete"
    ELSE "in_progress"

\* a status function that looks for RTAComplete.txt before it compares the modes
get_sequencing_status_complete_first(f, current) ==
    IF current \in {"closed", "failed"} THEN current
    ELSE IF f.rta_complete THEN "complete"
    ELSE IF ~flowcell_mode_ok(f) THEN "failed"
    ELSE "in_progress"

\* a status function that keeps every status behind 'in_progress'
get_sequencing_status_keeps_later(f, current) ==
    IF current \notin {"initial", "in_progress"} THEN current
    ELSE IF ~flowcell_mode_ok(f) THEN "failed"
    ELSE IF f.rta_complete THEN "complete"
    ELSE "in_progress"

get_sequencing_status(f, current) ==
    IF current \in {"closed", "failed"} THEN current
    ELSE IF ~flowcell_mode_ok(f) THEN "failed"
    ELSE IF f.rta_complete THEN "complete"
    ELSE "in_progress"

(***************************************************************************)
(* The extract command's update of the Flowcelltool server,                *)
(* app.py lines 133-148, 192-271                                           *)
(***************************************************************************)
\* no flowcell of the run folder's vendor ID: the server answers the lookup
\* with an error status
NoFlowcell == [known |-> FALSE, status_sequencing |-> "", status_conversion |-> "",
               status_delivery |-> ""]

Flowcell(seq, conv, deliv) ==
    [known |-> TRUE, status_sequencing |-> seq, status_conversion |-> conv,
     status_delivery |-> deliv]

\* get_sequencing_status has not been called
NoStatus == ""

ARaise(e) == /\ apc' = "failed"
             /\ aerr' = e

\* requests.get / post / patch: a request and how the server answered it
Request(method, resource, answer) ==
    [method |-> method, resource |-> resource, answer |-> answer]

\* the answers of the server to the lookup of a flowcell by its vendor ID: the
\* flowcell when it knows it, and otherwise or instead an answer that is not
\* ok: unknown flowcell, rejected token, server error
LookupAnswers(known) ==
    (IF known THEN {"ok"} ELSE {"not_found"}) \cup {"rejected", "error"}

\* the answers to a request that changes the server; the server holds one
\* flowcell per run and rejects the creation of one that it holds
ChangeAnswers(allowed) ==
    (IF allowed THEN {"ok"} ELSE {}) \cup {"rejected", "error"}

\* _update_or_create_flowcell up to the branch: _flowcell_by_vendor_id(folder)
\* reads folder.run_info.flowcell and GETs the flowcell, and raises
\* UnknownFlowcellException, which is caught, whenever the answer is not ok
UpdateOrCreateFlowcell ==
    /\ apc = "start"
    /\ IF ~folder.run_info.present
       THEN /\ ARaise("AttributeError")
            /\ UNCHANGED <<fc, http>>
       ELSE \E answer \in LookupAnswers(flowcell.known) :
              /\ http' = Append(http, Request("GET", "flowcell", answer))
              /\ IF answer = "ok"
                 THEN /\ fc' = flowcell
                      /\ apc' = "update"
                      /\ aerr' = aerr
                 ELSE /\ fc' = NoFlowcell
                      /\ apc' = "create"
                      /\ aerr' = aerr
    /\ UNCHANGED <<argv, config, args, folder, flowcell, current_status,
                   sequencing_status, stdout>>
    /\ UNCHANGED notApp

\* _create_flowcell: the sequencing machine is looked up, the data are built
\* (run_params.run_number is read before get_sequencing_status is called with
\* its default current_status) and POSTed
CreateFlowcell ==
    /\ apc = "create"
    /\ \E machine \in {"ok", "not_found", "rejected", "error"} :
         LET looked_up == Append(http, Request("GET", "sequencingmachine", machine))
         IN  IF machine # "ok"
             THEN /\ ARaise("NgsGluttonException")
                  /\ http' = looked_up
                  /\ UNCHANGED <<flowcell, current_status, sequencing_status>>
             ELSE IF ~folder.run_parameters.present
             THEN /\ ARaise("AttributeError")
                  /\ http' = looked_up
                  /\ UNCHANGED <<flowcell, current_status, sequencing_status>>
             ELSE LET status == get_sequencing_status(folder, "initial")
                  IN  /\ current_status' = "initial"
                      /\ sequencing_status' = status
                      /\ \E answer \in ChangeAnswers(~flowcell.known) :
                           /\ http' = Append(looked_up,
                                             Request("POST", "flowcell", answer))
                           /\ IF answer = "ok"
                              THEN /\ flowcell' = Flowcell(status, "initial", "initial")
                                   /\ apc' = "done"
                                   /\ aerr' = aerr
                              ELSE /\ ARaise("NgsGluttonException")
                                   /\ flowcell' = flowcell
    /\ UNCHANGED <<argv, config, args, folder, fc, stdout>>
    /\ UNCHANGED notApp

\* _update_flowcell: get_sequencing_status(folder, fc['status_sequencing']) is
\* PATCHed
UpdateFlowcell ==
    /\ apc = "update"
    /\ LET status == get_sequencing_status(folder, fc.status_sequencing)
       IN  /\ current_status' = fc.status_sequencing
           /\ sequencing_status' = status
           /\ \E answer \in ChangeAnswers(TRUE) :
                /\ http' = Append(http, Request("PATCH", "flowcell", answer))
                /\ IF answer = "ok"
                   THEN /\ flowcell' = [flowcell EXCEPT !.status_sequencing = status]
                        /\ apc' = "done"
                        /\ aerr' = aerr
                   ELSE /\ ARaise("NgsGluttonException")
                        /\ flowcell' = flowcell
    /\ UNCHANGED <<argv, config, args, folder, fc, stdout>>
    /\ UNCHANGED notApp

\* the sequencer finishes the run and writes RTAComplete.txt
RTAComplete ==
    /\ ~folder.rta_complete
    /\ folder' = [folder EXCEPT !.rta_complete = TRUE]
    /\ UNCHANGED <<argv, config, args, flowcell, fc, apc, aerr, current_status,
                   sequencing_status, stdout, http>>
    /\ UNCHANGED notApp

\* the command is run again on the same run folder
ExtractAgain ==
    /\ apc \in {"done", "failed"}
    /\ apc' = "start"
    /\ aerr' = ""
    /\ fc' = NoFlowcell
    /\ current_status' = NoStatus
    /\ sequencing_status' = NoStatus
    /\ http' = <<>>
    /\ UNCHANGED <<argv, config, args, folder, flowcell, stdout>>
    /\ UNCHANGED notApp

(***************************************************************************)
(* The retrieve-status command, app.py lines 73-152, 293-300, 505-552      *)
(***************************************************************************)
\* STATUS_CAT_CHOICES
STATUS_CAT_CHOICES == <<"sequencing", "conversion", "delivery">>

\* an option that is not given, an attribute that is None
None == "<None>"

\* an option that the section of the configuration file does not hold
Missing == "<missing>"

\* the truth value of a string or None
Truthy(v) == v \notin {None, ""}

\* the attribute argparse stores an option under: the words of the option
\* string behind the leading '--', with '_' in place of '-'
RECURSIVE OptionDest(_)
OptionDest(words) ==
    IF Len(words) = 1 THEN words[1]
    ELSE Head(words) \o "_" \o OptionDest(Tail(words))

\* [item for sublist in value for item in sublist] of a str: its characters
Flattened(value) ==
    CASE value = "sequencing" -> <<"s", "e", "q", "u", "e", "n", "c", "i", "n", "g">>
      [] value = "conversion" -> <<"c", "o", "n", "v", "e", "r", "s", "i", "o", "n">>
      [] value = "delivery" -> <<"d", "e", "l", "i", "v", "e", "r", "y">>

\* parser.parse_args(argv) for the command retrieve-status
ParseArgs(av) ==
    [verbose |-> FALSE,
     config_file |-> "~/.ngsgluttonrc",
     run_folder |-> av.run_folder,
     flowcelltool_url |-> av.flowcelltool_url,
     flowcelltool_auth_token |-> av.flowcelltool_auth_token,
     command |-> av.command,
     app_class |-> "NgsGluttonRetrieveStatusApp"]
    @@ (OptionDest(<<"status", "category">>) :> av.status_category)

\* main: the arguments are parsed and, of the list-valued options, those that
\* the namespace holds with a true value are flattened
Main ==
    /\ apc = "main"
    /\ LET parsed == ParseArgs(argv)
       IN  args' = IF "status_category" \in DOMAIN parsed
                      /\ Truthy(parsed["status_category"])
                   THEN [parsed EXCEPT !["status_category"] = Flattened(@)]
                   ELSE parsed
    /\ apc' = "init"
    /\ UNCHANGED <<argv, config, folder, flowcell, fc, aerr, current_status,
                   sequencing_status, stdout, http>>
    /\ UNCHANGED notApp

\* self.config.get('flowcelltool', option) raises when the section or the
\* option does not exist
ConfigGetRaises(option) ==
    IF ~config.section THEN "NoSectionError"
    ELSE IF config[option] = Missing THEN "NoOptionError"
    ELSE ""

\* NgsGluttonAppBase.__init__: _load_config, _update_args_from_config and
\* _check_args
AppInit ==
    /\ apc = "init"
    /\ IF ConfigGetRaises("url") # ""
       THEN /\ ARaise(ConfigGetRaises("url"))
            /\ args' = args
       ELSE LET url == IF Truthy(config.url) /\ args.flowcelltool_url = None
                       THEN config.url ELSE args.flowcelltool_url
            IN  IF ConfigGetRaises("auth_token") # ""
                THEN /\ ARaise(ConfigGetRaises("auth_token"))
                     /\ args' = [args EXCEPT !.flowcelltool_url = url]
                ELSE LET token == IF /\ Truthy(config.auth_token)
                                     /\ args.flowcelltool_auth_token = None
                                  THEN config.auth_token
                                  ELSE args.flowcelltool_auth_token
                     IN  /\ args' = [args EXCEPT !.flowcelltool_url = url,
                                                 !.flowcelltool_auth_token = token]
                         /\ IF Truthy(url) /\ ~Truthy(token)
                            THEN ARaise("InvalidCommandLineArguments")
                            ELSE /\ apc' = "run"
                                 /\ aerr' = aerr
    /\ UNCHANGED <<argv, config, folder, flowcell, fc, current_status,
                   sequencing_status, stdout, http>>
    /\ UNCHANGED notApp

\* run: io.parse_run_folder(Path(self.args.run_folder)) is called, without a
\* layout
AppRun ==
    /\ apc = "run"
    /\ apc' = "parse"
    /\ fpc' = "start"
    /\ layout_arg' = NoLayout
    /\ layout' = NoLayout
    /\ UNCHANGED <<fs, ferr, guess>>
    /\ UNCHANGED <<argv, config, args, folder, flowcell, fc, aerr, current_status,
                   sequencing_status, stdout, http>>
    /\ UNCHANGED samplerVars

\* the RunFolder that parse_run_folder returns (what RunInfo.xml holds is not
\* part of the model)
ParsedFolder == [run_info |-> RunInfo(<<>>), run_parameters |-> RunParameters(<<>>),
                 rta_complete |-> FALSE]

\* run: parse_run_folder returns the folder, with which _run_impl is called, or
\* its exception leaves the command
AppParsed ==
    /\ apc = "parse"
    /\ fpc \in {"done", "failed"}
    /\ IF fpc = "failed"
       THEN /\ ARaise(ferr)
            /\ folder' = folder
       ELSE /\ folder' = ParsedFolder
            /\ apc' = "impl"
            /\ aerr' = aerr
    /\ UNCHANGED <<argv, config, args, flowcell, fc, current_status,
                   sequencing_status, stdout, http>>
    /\ UNCHANGED notApp

\* NgsGluttonRetrieveStatusApp._run_impl: the URL is required, the flowcell is
\* looked up and print(fc['status_%s' % self.args.category])
RetrieveStatus ==
    /\ apc = "impl"
    /\ IF ~Truthy(args.flowcelltool_url)
       THEN /\ ARaise("InvalidCommandLineArguments")
            /\ UNCHANGED <<fc, stdout, http>>
       ELSE \E answer \in LookupAnswers(flowcell.known) :
              /\ http' = Append(http, Request("GET", "flowcell", answer))
              /\ IF answer # "ok"
                 THEN /\ ARaise("UnknownFlowcellException")
                      /\ UNCHANGED <<fc, stdout>>
                 ELSE /\ fc' = flowcell
                      /\ IF "category" \notin DOMAIN args
                         THEN /\ ARaise("AttributeError")
                              /\ stdout' = stdout
                         ELSE /\ stdout' = Append(stdout,
                                             flowcell["status_" \o args["category"]])
                              /\ apc' = "done"
                              /\ aerr' = aerr
    /\ UNCHANGED <<argv, config, args, folder, flowcell, current_status,
                   sequencing_status>>
    /\ UNCHANGED notApp

(***************************************************************************)
(* Specifications                                                          *)
(***************************************************************************)
\* no call of parse_run_folder is under way
IdleFolder ==
    /\ fs = {}
    /\ layout_arg = NoLayout
    /\ fpc = "idle"
    /\ ferr = ""
    /\ layout = NoLayout
    /\ guess = NotCalled

\* no command is under way
NoArgs == [command |-> ""]

NoFolder == [run_info |-> NoRunInfo, run_parameters |-> NoRunParameters,
             rta_complete |-> FALSE]

NoArgv == [command |-> ""]

NoConfig == [section |-> FALSE, url |-> "", auth_token |-> ""]

IdleApp ==
    /\ argv = NoArgv
    /\ config = NoConfig
    /\ args = NoArgs
    /\ folder = NoFolder
    /\ flowcell = NoFlowcell
    /\ fc = NoFlowcell
    /\ apc = "idle"
    /\ aerr = ""
    /\ current_status = NoStatus
    /\ sequencing_status = NoStatus
    /\ stdout = <<>>
    /\ http = <<>>

InitCall ==
    /\ IdleFolder
    /\ IdleApp
    /\ pc = "start"
    /\ err = ""
    /\ result = <<>>
    /\ cycle = 0
    /\ idx = 0
    /\ lanes_left = <<>>
    /\ per_lane = <<>>
    /\ lane = 0
    /\ c = 0
    /\ cycle_bases = <<>>
    /\ num = 0
    /\ histogram = <<>>
    /\ bclf = NoFile
    /\ handles = 0
    /\ opened = <<>>
    /\ files_read = <<>>

RunFolders(layouts, rds, lanesets, clusters) ==
    [layout : layouts, read_descriptions : rds, lanes : lanesets,
     clusters : clusters]

\* sample_indexed_reads(run_folder, num_reads) as NgsGluttonExtractApp calls it
\* (lower_thresh keeps its default 0.01), on any run folder, of a known layout or
\* of none, whose cycle files all hold run_folder.clusters reads
Init ==
    /\ run_folder \in RunFolders(FOLDER_LAYOUTS \cup {NoLayout}, ReadDescriptionLists,
                                 {1..n : n \in 0..MaxLanes}, 1..MaxClusters)
    /\ num_reads \in 1..MaxNumReads
    /\ lower_thresh = <<1, 100>>
    /\ InitCall

Next ==
    \/ DriverRun
    \/ BaseRun
    \/ DoSample
    \/ OpenCycle(DriverFiles(run_folder.clusters))
    \/ ReadCycle
    \/ Tally
    \/ Filter

Spec == Init /\ [][Next]_vars

\* sample_indexed_reads on run folders with at most one lane and one indexed
\* read, over cycle files of any content
Rd(n, ix) == [num_cycles |-> n, is_indexed_read |-> ix]

LaneCycleCounts == {1, 2}

LaneReadLists ==
    {<<Rd(n, TRUE)>> : n \in LaneCycleCounts} \cup
    {<<Rd(1, FALSE), Rd(n, TRUE)>> : n \in LaneCycleCounts}

InitLane ==
    /\ run_folder \in RunFolders({FOLDER_LAYOUT_MINISEQ_NEXTSEQ}, LaneReadLists,
                                 {{1}}, {0})
    /\ num_reads \in 0..MaxNumReads
    /\ lower_thresh \in ThreshValues
    /\ InitCall

NextLane ==
    \/ DriverRun
    \/ BaseRun
    \/ DoSample
    \/ OpenCycle(LaneFiles)
    \/ ReadCycle
    \/ Tally
    \/ Filter

SpecLane == InitLane /\ [][NextLane]_vars

\* sample_indexed_reads on one lane and one indexed read of one cycle, whose
\* cycle file holds one byte of any value
InitDecode ==
    /\ run_folder \in RunFolders({FOLDER_LAYOUT_MINISEQ_NEXTSEQ}, {<<Rd(1, TRUE)>>},
                                 {{1}}, {0})
    /\ num_reads = 1
    /\ lower_thresh = <<1, 100>>
    /\ InitCall

NextDecode ==
    \/ DriverRun
    \/ BaseRun
    \/ DoSample
    \/ OpenCycle(ByteFiles)
    \/ ReadCycle
    \/ Tally
    \/ Filter

SpecDecode == InitDecode /\ [][NextDecode]_vars

\* no call of sample_indexed_reads is under way
IdleSampler ==
    /\ run_folder = [layout |-> NoLayout, read_descriptions |-> <<>>,
                     lanes |-> {}, clusters |-> 0]
    /\ num_reads = 0
    /\ lower_thresh = <<0, 1>>
    /\ pc = "idle"
    /\ err = ""
    /\ result = <<>>
    /\ cycle = 0
    /\ idx = 0
    /\ lanes_left = <<>>
    /\ per_lane = <<>>
    /\ lane = 0
    /\ c = 0
    /\ cycle_bases = <<>>
    /\ num = 0
    /\ histogram = <<>>
    /\ bclf = NoFile
    /\ handles = 0
    /\ opened = <<>>
    /\ files_read = <<>>

\* parse_run_folder(path, layout) on any run folder, with and without a layout
InitFolder ==
    /\ fs \in FileSystems
    /\ layout_arg \in FOLDER_LAYOUTS \cup {NoLayout}
    /\ fpc = "start"
    /\ ferr = ""
    /\ layout = layout_arg
    /\ guess = NotCalled
    /\ IdleSampler
    /\ IdleApp

NextFolder ==
    \/ ReadRunInfo
    \/ ResolveLayout
    \/ ReadRunParameters

SpecFolder == InitFolder /\ [][NextFolder]_vars

\* the read descriptions of the run folders whose status is taken: every list
\* of up to two reads, three reads of one length, and two paired-end runs with
\* two index reads
StatusCycleCounts == {1, 2}

StatusReadLists ==
    UNION {[1..n -> [num_cycles : StatusCycleCounts, is_indexed_read : BOOLEAN]] :
             n \in {0, 1, 2}}
    \cup {<<Rd(1, FALSE), Rd(1, FALSE), Rd(1, FALSE)>>,
          <<Rd(2, FALSE), Rd(1, TRUE), Rd(1, TRUE), Rd(2, FALSE)>>,
          <<Rd(2, FALSE), Rd(1, TRUE), Rd(2, TRUE), Rd(2, FALSE)>>}

StatusFolders ==
    [run_info : {NoRunInfo} \cup {RunInfo(rds) : rds \in StatusReadLists},
     run_parameters : {NoRunParameters}
                        \cup {RunParameters(rds) : rds \in StatusReadLists},
     rta_complete : BOOLEAN]

\* the extract command with a Flowcelltool URL, run time and again on a run
\* folder while the sequencer finishes, against a server that does not know the
\* flowcell or holds it in any sequencing status
InitStatus ==
    /\ IdleSampler
    /\ IdleFolder
    /\ argv = [command |-> "extract"]
    /\ config = NoConfig
    /\ args = [command |-> "extract"]
    /\ folder \in StatusFolders
    /\ flowcell \in {NoFlowcell}
                     \cup {Flowcell(st, "initial", "initial") : st \in Range(STATUSES)}
    /\ fc = NoFlowcell
    /\ apc = "start"
    /\ aerr = ""
    /\ current_status = NoStatus
    /\ sequencing_status = NoStatus
    /\ stdout = <<>>
    /\ http = <<>>

NextStatus ==
    \/ UpdateOrCreateFlowcell
    \/ CreateFlowcell
    \/ UpdateFlowcell
    \/ RTAComplete
    \/ ExtractAgain

SpecStatus == InitStatus /\ [][NextStatus]_vars

\* the command lines of retrieve-status: --status-category is required and
\* takes one of the choices, the URL and the token are options
RetrieveArgvs ==
    [command : {"retrieve-status"},
     run_folder : {"run_folder"},
     status_category : Range(STATUS_CAT_CHOICES),
     flowcelltool_url : {None, "http://flowcelltool"},
     flowcelltool_auth_token : {None, "token"}]

\* configuration files without and with a [flowcelltool] section
Configs ==
    {NoConfig}
    \cup [section : {TRUE}, url : {Missing, "", "http://flowcelltool"},
          auth_token : {Missing, "", "token"}]

RetrieveFlowcells ==
    {NoFlowcell}
    \cup {Flowcell(seq, conv, deliv) : seq \in {"in_progress", "complete"},
                                       conv \in {"initial", "complete"},
                                       deliv \in {"initial", "skipped"}}

\* ngs-glutton retrieve-status on any command line, configuration file, run
\* folder and server
InitRetrieve ==
    /\ IdleSampler
    /\ fs \in FileSystems
    /\ layout_arg = NoLayout
    /\ fpc = "idle"
    /\ ferr = ""
    /\ layout = NoLayout
    /\ guess = NotCalled
    /\ argv \in RetrieveArgvs
    /\ config \in Configs
    /\ args = NoArgs
    /\ folder = NoFolder
    /\ flowcell \in RetrieveFlowcells
    /\ fc = NoFlowcell
    /\ apc = "main"
    /\ aerr = ""
    /\ current_status = NoStatus
    /\ sequencing_status = NoStatus
    /\ stdout = <<>>
    /\ http = <<>>

NextRetrieve ==
    \/ Main
    \/ AppInit
    \/ AppRun
    \/ ReadRunInfo
    \/ ResolveLayout
    \/ ReadRunParameters
    \/ AppParsed
    \/ RetrieveStatus

SpecRetrieve == InitRetrieve /\ [][NextRetrieve]_vars

(***************************************************************************)
(* Properties                                                              *)
(***************************************************************************)

\* C1: whatever markers exist, guess_folder_layout returns the first match in
\* the order MiSeq/HiSeq2000 (BaseCalls/L001/C1.1), HiSeqX (s.locs),
\* MiniSeq/NextSeq (BaseCalls/L001), the MiSeq marker winning over the HiSeqX
\* marker, and it raises the unknown-layout exception, leaving the caller
\* without a layout, exactly when no marker exists.
C1_LayoutPrecedence ==
    guess # NotCalled =>
      /\ MISEQ_MARKER \in fs => guess = Returns(FOLDER_LAYOUT_MISEQ_HISEQ2K)
      /\ (MISEQ_MARKER \notin fs /\ HISEQX_MARKER \in fs)
            => guess = Returns(FOLDER_LAYOUT_HISEQX)
      /\ (MISEQ_MARKER \notin fs /\ HISEQX_MARKER \notin fs /\ MINISEQ_MARKER \in fs)
            => guess = Returns(FOLDER_LAYOUT_MINISEQ_NEXTSEQ)
      /\ guess.raised = "UnknownFlowcellLayoutException"
            <=> {MISEQ_MARKER, HISEQX_MARKER, MINISEQ_MARKER} \cap fs = {}
      /\ guess.raised # ""
            => /\ guess.value = NoLayout
               /\ layout = NoLayout
               /\ fpc = "failed"
               /\ ferr = guess.raised
      /\ guess.raised = "" => layout = guess.value

\* both the MiSeq and the HiSeqX marker exist and the MiSeq layout was returned
C1_Witness ==
    /\ guess = Returns(FOLDER_LAYOUT_MISEQ_HISEQ2K)
    /\ {MISEQ_MARKER, HISEQX_MARKER} \subseteq fs
    /\ layout_arg = NoLayout

(***************************************************************************)
(* The state of one _sample_for_lane call                                  *)
(***************************************************************************)
\* the cycle file read as the j-th of the current lane held at least the
\* total_reads bytes its header declares
ValidFile(j) == files_read[j].valid

\* min(num_reads, total_reads) of the j-th cycle file
Expected(j) == Min(num_reads, files_read[j].total_reads)

\* the j-th cycle file gave fewer bytes than min(num_reads, total_reads)
Truncated(j) == Len(files_read[j].bytes_bases) < Expected(j)

\* a histogram was tallied for the current lane
Tallied == pc = "filter" \/ per_lane # <<>>

\* a histogram of the current read was stored or returned
HistogramProduced == per_lane # <<>> \/ result # <<>> \/ pc = "done"

\* C2: for every valid cycle file and every cap num_reads >= 0 the decode of
\* the cycle yields exactly min(num_reads, total_reads) symbols, each one of
\* A, C, G, T, N.
C2_DecodeYieldsMin ==
    \A j \in DOMAIN files_read :
      ValidFile(j) =>
        /\ j \in DOMAIN cycle_bases
        /\ Len(cycle_bases[j]) = Expected(j)
        /\ \A i \in DOMAIN cycle_bases[j] :
             cycle_bases[j][i] \in {"A", "C", "G", "T", "N"}

\* C3: a byte b decodes to N when b = 0 and otherwise to the base of its two
\* low bits (0 -> A, 1 -> C, 2 -> G, 3 -> T), for every b in 0..255; a nonzero
\* byte with low bits 00 decodes to A.
C3_ByteDecoding ==
    \A j \in DOMAIN cycle_bases :
      \A i \in DOMAIN cycle_bases[j] :
        LET b == files_read[j].bytes_bases[i]
            low == b - 4 * (b \div 4)
        IN  /\ b \in 0..255
            /\ b = 0 => cycle_bases[j][i] = "N"
            /\ (b # 0 /\ low = 0) => cycle_bases[j][i] = "A"
            /\ (b # 0 /\ low = 1) => cycle_bases[j][i] = "C"
            /\ (b # 0 /\ low = 2) => cycle_bases[j][i] = "G"
            /\ (b # 0 /\ low = 3) => cycle_bases[j][i] = "T"

\* the byte 0x04 was decoded to A and the call returned
C3_Witness ==
    /\ pc = "done"
    /\ Len(files_read) = 1
    /\ files_read[1].bytes_bases = <<4>>
    /\ cycle_bases = <<(<<"A">>)>>
    /\ result[1].per_lane[1].hist = <<[seq |-> "A", count |-> 1]>>

\* C4: when a cycle file of an indexed read gives fewer bytes than
\* min(num_reads, total_reads), the call fails and no histogram is built from the
\* shorter data.
C4_TruncatedNeverSampled ==
    (\E j \in DOMAIN files_read : Truncated(j)) =>
        /\ ~Tallied
        /\ ~HistogramProduced

\* C5: when the decoded per-cycle arrays of one (lane, read) pair differ in
\* length, sampling fails: the tally raises and no histogram is stored for the
\* pair or returned.
UnequalLengths ==
    \E i, j \in DOMAIN cycle_bases : Len(cycle_bases[i]) # Len(cycle_bases[j])

LoopOver == c >= cycle + read_desc.num_cycles

C5_UnequalLengthsFail ==
    UnequalLengths =>
        /\ pc \in {"cycle", "read", "tally", "failed"}
        /\ (pc = "failed" /\ LoopOver) => err = "ValueError"
        /\ histogram = <<>>
        /\ ~HistogramProduced

\* two cycles of different length were decoded and the tally raised
C5_Witness ==
    /\ pc = "failed"
    /\ err = "ValueError"
    /\ Len(cycle_bases) = 2
    /\ Len(cycle_bases[1]) # Len(cycle_bases[2])
    /\ LoopOver

(***************************************************************************)
(* The histogram of one (lane, indexed read) pair                          *)
(***************************************************************************)
RECURSIVE SumCounts(_)
SumCounts(h) == IF h = <<>> THEN 0 ELSE Head(h).count + SumCounts(Tail(h))

Keys(h) == {h[i].seq : i \in DOMAIN h}

\* the histogram stored for the current lane by the filter step
Stored == per_lane[Len(per_lane)].hist

\* the filter step has stored the histogram of the current lane
Filtered == per_lane # <<>> /\ per_lane[Len(per_lane)].lane = lane

AllValid == \A j \in DOMAIN files_read : ValidFile(j)

\* floor(p/q * k) for a fraction p/q >= 0
Floor(lt, k) == CHOOSE m \in 0..(lt[1] * k) :
                    m * lt[2] <= lt[1] * k /\ lt[1] * k < (m + 1) * lt[2]

\* C6: with valid cycle files the counts tallied before filtering sum to exactly
\* k = min(num_reads, total_reads); the counts of the stored histogram sum to at
\* most k, and to exactly k when lower_thresh = 0.
C6_CountsSumToK ==
    (Tallied /\ AllValid) =>
        \A j \in DOMAIN files_read :
            /\ SumCounts(histogram) = Expected(j)
            /\ Filtered => /\ SumCounts(Stored) <= Expected(j)
                           /\ lower_thresh[1] = 0 => SumCounts(Stored) = Expected(j)

\* three reads over two valid cycles were tallied and filtering dropped some
C6_Witness ==
    /\ pc = "done"
    /\ AllValid
    /\ Len(files_read) = 2
    /\ SumCounts(histogram) = 3
    /\ Len(histogram) = 2
    /\ SumCounts(result[1].per_lane[1].hist) = 2

\* the histogram of the end-to-end scenario: 100 reads, 60 AAAA, 30 CCCC, 10 NNNN
ScenarioHistogram == <<[seq |-> "NNNN", count |-> 10],
                       [seq |-> "AAAA", count |-> 60],
                       [seq |-> "CCCC", count |-> 30]>>

LessEq(t1, t2) == t1[1] * t2[2] <= t2[1] * t1[2]

\* C8: for the same cycle files and num_reads, raising lower_thresh never adds a
\* sequence: the sequences retained with t2 are among those retained with t1
\* whenever t1 <= t2.
C8_FilterMonotonic ==
    Filtered =>
      \A t1, t2 \in ThreshValues :
        LessEq(t1, t2) =>
          /\ Keys(FilterHistogram(histogram, Thresh(t2, num)))
               \subseteq Keys(FilterHistogram(histogram, Thresh(t1, num)))
          /\ (t1 = lower_thresh =>
                Keys(FilterHistogram(histogram, Thresh(t2, num))) \subseteq Keys(Stored))
          /\ (t2 = lower_thresh =>
                Keys(Stored) \subseteq Keys(FilterHistogram(histogram, Thresh(t1, num))))

\* a histogram was stored from which a higher threshold drops a sequence
C8_Witness ==
    /\ Filtered
    /\ Len(Stored) = 2
    /\ \E t2 \in ThreshValues :
         /\ LessEq(lower_thresh, t2)
         /\ Len(FilterHistogram(histogram, Thresh(t2, num))) = 1

\* the sequence of the read with index i: its symbols of the cycles in order
SeqOfRead(i) == Join([j \in DOMAIN cycle_bases |-> cycle_bases[j][i]])

\* the first read index at which a sequence occurs among the sampled reads
FirstSeen(seq) ==
    CHOOSE i \in DOMAIN cycle_bases[1] :
        /\ SeqOfRead(i) = seq
        /\ \A i2 \in 1..(i - 1) : SeqOfRead(i2) # seq

\* C9: the entries of a stored lane histogram are in non-increasing order of
\* count, and entries of equal count are in the order in which their sequences
\* were first seen among the sampled reads.
C9_SortedByCountStable ==
    Filtered =>
      \A i, j \in DOMAIN Stored :
        i < j =>
          /\ Stored[i].count >= Stored[j].count
          /\ Stored[i].count = Stored[j].count
               => FirstSeen(Stored[i].seq) < FirstSeen(Stored[j].seq)

\* the sort moved a sequence seen later in front of one seen earlier
C9_Witness ==
    /\ Filtered
    /\ Len(Stored) = 2
    /\ Stored[1].count > Stored[2].count
    /\ FirstSeen(Stored[1].seq) > FirstSeen(Stored[2].seq)

(***************************************************************************)
(* The walk over the read descriptions                                     *)
(***************************************************************************)
\* 1 + the num_cycles of all reads in front of read i
StartCycle(i) ==
    1 + SumSeq([r \in 1..(i - 1) |-> run_folder.read_descriptions[r].num_cycles])

CyclesOf(i) ==
    StartCycle(i)..(StartCycle(i) + run_folder.read_descriptions[i].num_cycles - 1)

\* the cycles of the files opened for read i in lane l
CyclesOpened(i, l) ==
    {opened[k].cycle : k \in {k2 \in DOMAIN opened :
                                opened[k2].read = i /\ opened[k2].lane = l}}

\* the histogram of read i in lane l has been stored
PairSampled(i, l) ==
    \/ /\ i < idx
       /\ run_folder.read_descriptions[i].is_indexed_read
       /\ l \in run_folder.lanes
    \/ /\ i = idx
       /\ pc \in {"lane", "cycle", "read", "tally", "filter", "failed"}
       /\ \E k \in DOMAIN per_lane : per_lane[k].lane = l

\* C10: an indexed read is sampled from cycle 1 + (num_cycles of all reads in
\* front of it, indexed or not) over exactly its num_cycles consecutive cycles;
\* a read that is not indexed advances the counter and has no file opened.
C10_CycleRanges ==
    /\ \A k \in DOMAIN opened :
         /\ run_folder.read_descriptions[opened[k].read].is_indexed_read
         /\ opened[k].cycle \in CyclesOf(opened[k].read)
    /\ \A i \in DOMAIN run_folder.read_descriptions, l \in run_folder.lanes :
         PairSampled(i, l) => CyclesOpened(i, l) = CyclesOf(i)
    /\ pc \in {"run", "lane", "cycle", "read", "tally", "filter"}
         => cycle = StartCycle(idx)
    /\ pc = "read" => c \in CyclesOf(idx)

\* an indexed read behind a read of two cycles that is not indexed was sampled
\* from the cycles 3 and 4
C10_Witness ==
    /\ pc = "done"
    /\ run_folder.read_descriptions = <<Rd(2, FALSE), Rd(2, TRUE)>>
    /\ run_folder.lanes = {1}
    /\ opened = <<[read |-> 2, lane |-> 1, cycle |-> 3],
                  [read |-> 2, lane |-> 1, cycle |-> 4]>>

(***************************************************************************)
(* The result and the order of the walk                                    *)
(***************************************************************************)
\* the positions of the indexed reads among the first n read descriptions, in order
RECURSIVE IndexedReads(_)
IndexedReads(n) ==
    IF n = 0 THEN <<>>
    ELSE IF run_folder.read_descriptions[n].is_indexed_read
         THEN Append(IndexedReads(n - 1), n)
         ELSE IndexedReads(n - 1)

\* C11: on success the returned list holds exactly one SampleIndexedReadsStats
\* per indexed read description, in the order of those reads in
\* run_info.read_descriptions (the k-th entry holds, for every lane, sequences
\* of the k-th indexed read's num_cycles symbols), and is empty when no read is
\* indexed.
C11_OnePerIndexedRead ==
    pc = "done" =>
      LET ix == IndexedReads(Len(run_folder.read_descriptions))
      IN  /\ Len(result) = Len(ix)
          /\ \A k \in DOMAIN result :
                /\ Len(result[k].per_lane) = Cardinality(run_folder.lanes)
                /\ \A e \in DOMAIN result[k].per_lane :
                      /\ result[k].per_lane[e].hist # <<>>
                      /\ \A h \in DOMAIN result[k].per_lane[e].hist :
                            Len(result[k].per_lane[e].hist[h].seq)
                              = run_folder.read_descriptions[ix[k]].num_cycles

\* two indexed reads of different length around a read that is not indexed
\* were sampled, and the result holds the shorter one first
C11_Witness ==
    /\ pc = "done"
    /\ run_folder.read_descriptions = <<Rd(1, TRUE), Rd(2, TRUE)>>
    /\ run_folder.lanes = {1}
    /\ Len(result) = 2
    /\ Len(result[1].per_lane[1].hist[1].seq) = 1
    /\ Len(result[2].per_lane[1].hist[1].seq) = 2

Supported == {FOLDER_LAYOUT_MINISEQ_NEXTSEQ, FOLDER_LAYOUT_MISEQ_HISEQ2K}

\* C12: for a run folder whose layout is HiSeqX, or any value other than the two
\* layouts with a sampler, the call fails with the exception of the dispatch
\* before a lane directory is listed or a cycle file is opened, and returns
\* nothing.
C12_UnsupportedLayoutFailsFirst ==
    run_folder.layout \notin Supported =>
        /\ pc \in {"start", "failed"}
        /\ pc = "failed" => err = "NgsGluttonException"
        /\ opened = <<>>
        /\ handles = 0
        /\ lanes_left = <<>>
        /\ result = <<>>

\* a HiSeqX run folder with lanes and an indexed read was refused
C12_Witness ==
    /\ pc = "failed"
    /\ err = "NgsGluttonException"
    /\ run_folder.layout = FOLDER_LAYOUT_HISEQX
    /\ run_folder.lanes = {1, 2}
    /\ run_folder.read_descriptions = <<Rd(1, TRUE)>>

\* C13: sampling is all-or-nothing: an exception is raised exactly in the states
\* in which the call has failed, a call that returns has met no failure, a cycle
\* file that cannot be decoded makes the call fail whatever was collected
\* before, and a failed call stays failed.
C13_AllOrNothing ==
    /\ [](err # "" <=> pc = "failed")
    /\ [][(pc = "read" /\ bclf.kind # "data") => pc' = "failed"]_vars
    /\ [][pc = "failed" => pc' = "failed"]_vars

\* a cycle file could not be decoded after a whole read and a lane of the next
\* read had been sampled
C13_Witness ==
    /\ pc = "failed"
    /\ err = "struct.error"
    /\ Len(result) = 1
    /\ Len(per_lane) = 1

\* (read, lane, cycle) of a before that of b in the nested order
Before(a, b) ==
    \/ a.read < b.read
    \/ a.read = b.read /\ a.lane < b.lane
    \/ a.read = b.read /\ a.lane = b.lane /\ a.cycle < b.cycle

Ascending(pl) == \A i, j \in DOMAIN pl : i < j => pl[i].lane < pl[j].lane

\* C14: cycle files are opened one after the other in nested order: reads in
\* metadata order, within a read the lanes in ascending order, within a lane the
\* cycles in ascending order without a gap, so that every file of one
\* (read, lane) pair comes before any file of the next pair; and every per_lane
\* holds its lanes in ascending order.
C14_NestedOrder ==
    /\ \A i, j \in DOMAIN opened : i < j => Before(opened[i], opened[j])
    /\ \A i \in DOMAIN opened :
          (i > 1 /\ opened[i].read = opened[i - 1].read
                 /\ opened[i].lane = opened[i - 1].lane)
            => opened[i].cycle = opened[i - 1].cycle + 1
    /\ Ascending(per_lane)
    /\ \A k \in DOMAIN result : Ascending(result[k].per_lane)
    /\ pc = "cycle" => handles = 0

\* two indexed reads of two cycles were sampled in two lanes
C14_Witness ==
    /\ pc = "done"
    /\ Len(opened) = 8
    /\ Len(result) = 2
    /\ run_folder.lanes = {1, 2}
    /\ opened[3] = [read |-> 1, lane |-> 2, cycle |-> 1]
    /\ opened[5] = [read |-> 2, lane |-> 1, cycle |-> 3]
    /\ result[2].per_lane[2].lane = 2

(***************************************************************************)
(* The sequencing status of a flowcell                                     *)
(***************************************************************************)
Final == {"closed", "failed"}

\* C15: get_sequencing_status returns current_status whenever that is 'closed'
\* or 'failed', whatever the run folder holds, and no step moves a flowcell of
\* the server out of 'closed' or 'failed'.
C15_ClosedAndFailedAreFinal ==
    /\ [](current_status \in Final => sequencing_status = current_status)
    /\ [][(flowcell.known /\ flowcell.status_sequencing \in Final)
            => flowcell' = flowcell]_vars

\* a flowcell that had failed was updated from a run folder whose modes agree
\* and that is complete, and is still failed
C15_Witness ==
    /\ apc = "done"
    /\ current_status = "failed"
    /\ flowcell.status_sequencing = "failed"
    /\ flowcell_mode_ok(folder)
    /\ folder.rta_complete

\* the status of a new flowcell, by the run folder at the time of the call
NewStatus ==
    IF ~flowcell_mode_ok(folder) THEN "failed"
    ELSE IF folder.rta_complete THEN "complete"
    ELSE "in_progress"

\* C16: a flowcell is created with a sequencing status other than 'initial':
\* get_sequencing_status with the default current_status returns 'failed' when
\* the modes of the final and the planned reads differ, else 'complete' when
\* RTAComplete.txt exists, else 'in_progress'.
C16_CreatedAtLeastInProgress ==
    [][(apc = "create" /\ apc' = "done") =>
          /\ current_status' = "initial"
          /\ sequencing_status' \in {"failed", "complete", "in_progress"}
          /\ sequencing_status' = NewStatus
          /\ flowcell'.known
          /\ flowcell'.status_sequencing = sequencing_status']_vars

\* a flowcell was created as failed from a complete run folder whose final
\* reads are not the planned ones
C16_Witness ==
    /\ apc = "done"
    /\ ~fc.known
    /\ flowcell.known
    /\ flowcell.status_sequencing = "failed"
    /\ folder.rta_complete
    /\ folder.run_info.present
    /\ folder.run_parameters.present
    /\ current_status = "initial"

(***************************************************************************)
(* What the documentation of the sampling says                             *)
(***************************************************************************)
\* C17: num_reads reads are sampled from a lane and exactly the sequences whose
\* count is below lower_thresh * num_reads are ignored: a sequence counted c
\* times among the sampled reads is absent from the lane's histogram if and
\* only if c < lower_thresh * num_reads, the product taken with the num_reads
\* argument.
C17_BelowProductIgnored ==
    Filtered =>
      \A i \in DOMAIN histogram :
        histogram[i].seq \notin Keys(Stored)
          <=> histogram[i].count * lower_thresh[2] < lower_thresh[1] * num_reads

\* min_read_threshold as a count: the fraction p/q equals the integer m
SameLimit(lt, m) == lt[1] = m * lt[2]

\* C18: every returned SampleIndexedReadsStats reports what was read: when every
\* cycle file declares total_reads = t, num_indexed_reads is min(num_reads, t),
\* also when t < num_reads, and min_read_threshold is the limit on the count
\* that was applied to the histograms of the read.
C18_StatsReportWhatWasRead ==
    run_folder.lanes # {} =>
      \A k \in DOMAIN result :
        /\ result[k].num_indexed_reads = Min(num_reads, run_folder.clusters)
        /\ SameLimit(result[k].min_read_threshold,
                     Thresh(lower_thresh, Min(num_reads, run_folder.clusters)))

\* the number of read indices whose symbols, cycle by cycle, make up seq
ReadsWith(seq) == Cardinality({i \in DOMAIN cycle_bases[1] : SeqOfRead(i) = seq})

\* C20: for a (lane, indexed read) pair of n cycles with k decoded reads per
\* cycle, the count tallied for a sequence is the number of read indices whose
\* symbols of the n cycles, in ascending cycle order, make up the sequence;
\* every sequence of a read index is a key, every key has exactly n symbols and
\* occurs once.
C20_CountsPerReadIndex ==
    Tallied =>
      /\ \A e \in DOMAIN histogram :
            /\ Len(histogram[e].seq) = Len(cycle_bases)
            /\ histogram[e].count = ReadsWith(histogram[e].seq)
            /\ \A e2 \in DOMAIN histogram :
                  histogram[e2].seq = histogram[e].seq => e2 = e
      /\ \A i \in DOMAIN cycle_bases[1] : SeqOfRead(i) \in Keys(histogram)

\* three reads over two cycles were tallied: two read AN, one read NA
C20_Witness ==
    /\ pc = "done"
    /\ cycle_bases = << <<"A", "N", "A">>, <<"N", "A", "N">> >>
    /\ histogram = <<[seq |-> "AN", count |-> 2], [seq |-> "NA", count |-> 1]>>

(***************************************************************************)
(* The retrieve-status command                                             *)
(***************************************************************************)
\* the command has a Flowcelltool URL and a token, from the command line or a
\* well-formed configuration file, and the server knows the flowcell
WellFormedCall ==
    /\ argv.command = "retrieve-status"
    /\ config.section
    /\ config.url # Missing
    /\ config.auth_token # Missing
    /\ Truthy(argv.flowcelltool_url) \/ Truthy(config.url)
    /\ Truthy(argv.flowcelltool_auth_token) \/ Truthy(config.auth_token)
    /\ flowcell.known

\* C19: retrieve-status with --status-category c, a Flowcelltool URL and a
\* flowcell that the server knows and answers the lookup with raises no error,
\* and once the run folder is parsed it prints the flowcell's status_c.
C19_RetrieveStatusPrints ==
    (WellFormedCall /\ \A r \in DOMAIN http : http[r].answer = "ok") =>
        /\ aerr \in {"", ferr}
        /\ (fpc = "done" /\ apc \in {"done", "failed"}) =>
              /\ apc = "done"
              /\ stdout = <<flowcell["status_" \o argv.status_category]>>

(***************************************************************************)
(* The file handles                                                        *)
(***************************************************************************)
\* C21: at every point of the call at most one cycle file is open; a handle is
\* open only inside the decode of the cycle it was opened for, none is open
\* when the next cycle file is opened, and none is open when the call has
\* returned or raised, also when the decode of a cycle failed.
C21_HandlesScopedPerCycle ==
    /\ handles \in {0, 1}
    /\ handles = 1 <=> pc = "read"
    /\ handles = 1 <=> bclf # NoFile
    /\ pc = "read" => opened[Len(opened)] = [read |-> idx, lane |-> lane, cycle |-> c]
    /\ pc \in {"done", "failed"} => handles = 0

\* the first cycle was decoded and the decode of the second cycle failed on an
\* empty read; no handle is left open
C21_Witness ==
    /\ pc = "failed"
    /\ err = "ValueError"
    /\ Len(opened) = 2
    /\ Len(cycle_bases) = 1
    /\ Len(files_read) = 2
    /\ handles = 0

(***************************************************************************)
(* Update or create                                                        *)
(***************************************************************************)
\* the number of requests of the given method that the command has sent
Sent(method) == Cardinality({r \in DOMAIN http : http[r].method = method})

\* C22: _update_or_create_flowcell sends a PATCH or a POST, never both, and one
\* of them in every call that ends without an exception; it updates when the
\* lookup by vendor ID succeeded, and it creates a flowcell only when the
\* server does not know the flowcell, not when the lookup failed because the
\* token was rejected or the server had an error.
C22_UpdateXorCreate ==
    /\ Sent("PATCH") + Sent("POST") <= 1
    /\ apc = "done" => Sent("PATCH") + Sent("POST") = 1
    /\ (apc = "update" \/ Sent("PATCH") = 1) => http[1].answer = "ok"
    /\ (apc = "create" \/ Sent("POST") = 1) => http[1].answer = "not_found"

(***************************************************************************)
(* The sequencing status over repeated updates                             *)
(***************************************************************************)
\* a run of the extract command has updated the flowcell the server holds
Updated == apc = "update" /\ apc' = "done"

\* C23 as claimed: over the extract runs that update a flowcell the sequencing
\* status never moves backwards: a stored 'complete' is never set to
\* 'in_progress', and a stored 'canceled' or 'skipped' is never overwritten by
\* a status derived from the folder.
C23_NeverBackwards ==
    [][Updated =>
         /\ flowcell.status_sequencing = "complete"
               => flowcell'.status_sequencing # "in_progress"
         /\ flowcell.status_sequencing \in {"canceled", "skipped"}
               => flowcell' = flowcell]_vars

\* C23 as amended: over the extract runs that update a flowcell only a stored
\* 'closed' or 'failed' is kept whatever the folder holds; every other stored
\* status, 'canceled' and 'skipped' included, is replaced by the status derived
\* from the folder, and a stored 'complete' is set to 'in_progress' only when
\* the modes agree and RTAComplete.txt does not exist at that run.
C23_OnlyClosedAndFailedKept ==
    [][Updated =>
         /\ flowcell.status_sequencing \in Final => flowcell' = flowcell
         /\ flowcell.status_sequencing \notin Final
               => flowcell' = [flowcell EXCEPT !.status_sequencing = NewStatus]
         /\ (/\ flowcell.status_sequencing = "complete"
             /\ flowcell'.status_sequencing = "in_progress")
               => (flowcell_mode_ok(folder) /\ ~folder.rta_complete)]_vars

\* a flowcell stored as complete was updated from a run folder without
\* RTAComplete.txt and is in progress again
C23_Witness ==
    /\ apc = "done"
    /\ fc.known
    /\ fc.status_sequencing = "complete"
    /\ current_status = "complete"
    /\ flowcell.status_sequencing = "in_progress"
    /\ ~folder.rta_complete
    /\ Sent("PATCH") = 1

====
